---- MODULE Spec2Model ----
(***************************************************************************)
(* multiplex-tonic-hyper: a tower Service that routes each hyper request   *)
(* to a gRPC service or to a web service by its Content-Type header.       *)
(*                                                                         *)
(* Modelled from src/src/lib.rs (Multiplexer, EncapsulatedFuture,          *)
(* EncapsulatedBody), src/src/make.rs (MakeMultiplexer,                    *)
(* MakeMultiplexerFuture) and the services of src/tests/common/svc.rs.     *)
(*                                                                         *)
(*   Spec       one Multiplexer over two service_fn services: call with a  *)
(*              request, polls of the futures the calls returned.          *)
(*   SpecReady  Multiplexer::new over every pair of the test services      *)
(*              (ReadyService, ErrorService, DelayedService) with a clock: *)
(*              poll_ready, the waker threads, the passing of time.        *)
(*   SpecReadyLive  SpecReady with a caller that polls again each time it  *)
(*              was woken, under fairness of the clock, the waker threads  *)
(*              and the executor.                                          *)
(*   SpecRoute  Multiplexer::new over every pair of the test services:     *)
(*              poll_ready and call in any order.                          *)
(*   SpecBody   one EncapsulatedBody of either variant over an inner body: *)
(*              poll_data and poll_trailers.                               *)
(*   SpecMake   MakeMultiplexer::new over every pair of the make services  *)
(*              of the tests (src/src/make.rs): poll_ready with the clock, *)
(*              call, polls of the MakeMultiplexerFuture, and one request  *)
(*              to the Multiplexer it completes with.                      *)
(*   SpecInFlight  one Multiplexer with several calls in flight: polls of  *)
(*              the futures and of the bodies of their responses, and      *)
(*              drops of either, in any order.                             *)
(***************************************************************************)
EXTENDS Integers, Sequences, FiniteSets, TLC

\* ------------------------------------------------------------------ bounds
\* Multiplexer::call invocations in one behaviour.
MaxCalls == 2
\* Last instant of the clock (Instant::now() ranges over 0..MaxTime).
MaxTime == 3
\* Latest ready_after a DelayedService is constructed with.
MaxDelay == 2
\* Most data chunks an inner body holds.
MaxChunks == 2

\* ------------------------------------------------------- Option, Result, Poll
None == [opt |-> "None"]
Some(v) == [opt |-> "Some", val |-> v]

Ok(v) == [res |-> "Ok", val |-> v]
Err(e) == [res |-> "Err", err |-> e]

Pending == [poll |-> "Pending"]
Ready(v) == [poll |-> "Ready", val |-> v]

\* The unit value ().
Unit == [unit |-> TRUE]

IsReadyErr(p) == p.poll = "Ready" /\ p.val.res = "Err"
IsReadyOk(p) == p.poll = "Ready" /\ p.val.res = "Ok"

\* BoxedError: the inner error, boxed as dyn Error + Send + Sync.
\* (to_boxed_drop: a box that loses the error it was made from.)
to_boxed_drop(e) == [boxed |-> [type |-> "Error", msg |-> "error"]]
to_boxed(e) == [boxed |-> e]

\* .map_err(to_boxed) on a Poll<Result<T, E>>: only Ready(Err(e)) is changed.
map_err_to_boxed(p) ==
    IF IsReadyErr(p) THEN Ready(Err(to_boxed(p.val.err))) ELSE p

\* ------------------------------------------------------------------ requests
Sides == {"grpc", "web"}
Other(side) == IF side = "grpc" THEN "web" ELSE "grpc"

\* b"application/grpc"
APPLICATION_GRPC ==
    <<"a","p","p","l","i","c","a","t","i","o","n","/","g","r","p","c">>

\* Content-Type values the requests carry.
GrpcProto == APPLICATION_GRPC \o <<"+","p","r","o","t","o">>
GrpcStrictPrefix == SubSeq(APPLICATION_GRPC, 1, Len(APPLICATION_GRPC) - 1)
GrpcCapital ==
    <<"A","p","p","l","i","c","a","t","i","o","n","/","g","r","p","c">>
TextHtml == <<"t","e","x","t","/","h","t","m","l">>

Header(n, v) == [name |-> n, value |-> v]

Request(m, u, h, b) == [method |-> m, uri |-> u, headers |-> h, body |-> b]

\* The requests handed to Multiplexer::call. A HeaderMap keeps the values of
\* one name in insertion order; its names are stored in lower case.
Requests ==
    { Request("GET", "/", <<>>, ""),
      Request("POST", "/svc/Say", <<Header("content-type", APPLICATION_GRPC)>>, "frame"),
      Request("POST", "/svc/Say", <<Header("content-type", GrpcProto)>>, "frame"),
      Request("POST", "/svc/Say", <<Header("content-type", GrpcStrictPrefix)>>, "frame"),
      Request("POST", "/svc/Say", <<Header("content-type", GrpcCapital)>>, ""),
      Request("GET", "/index", <<Header("content-type", TextHtml)>>, ""),
      Request("GET", "/", <<Header("accept", APPLICATION_GRPC)>>, ""),
      Request("POST", "/svc/Say",
              <<Header("content-type", APPLICATION_GRPC),
                Header("content-type", TextHtml)>>, "frame"),
      Request("POST", "/form",
              <<Header("content-type", TextHtml),
                Header("content-type", APPLICATION_GRPC)>>, "a=1") }

\* HeaderMap::get: the first value stored under the name, if any.
\* (HeaderMap_get_last: the last one.)
HeaderMap_get_last(headers, name) ==
    LET at == {k \in 1..Len(headers) : headers[k].name = name}
    IN  IF at = {} THEN None
        ELSE Some(headers[CHOOSE k \in at : \A j \in at : k >= j].value)
HeaderMap_get(headers, name) ==
    LET at == {k \in 1..Len(headers) : headers[k].name = name}
    IN  IF at = {} THEN None
        ELSE Some(headers[CHOOSE k \in at : \A j \in at : k <= j].value)

\* <[u8]>::starts_with
starts_with(bytes, needle) ==
    /\ Len(bytes) >= Len(needle)
    /\ SubSeq(bytes, 1, Len(needle)) = needle

\* ------------------------------------------------------------------ services
\* A service the Multiplexer owns. kind names its implementation:
\*   "ServiceFn"       hyper::service_fn over a closure (always ready; call
\*                     returns the closure's future)
\*   "ReadyService", "ErrorService", "DelayedService"   tests/common/svc.rs
\* calls is the log of the requests its call received, in order.
Service(kind, ready_after) ==
    [kind |-> kind, ready_after |-> ready_after, calls |-> <<>>]

ServiceFn == Service("ServiceFn", 0)
ReadyService == Service("ReadyService", 0)
ErrorService == Service("ErrorService", 0)
DelayedService_new(ready_after) == Service("DelayedService", ready_after)

\* The services a Multiplexer is built over in the tests.
TestServices ==
    {ReadyService, ErrorService} \cup {DelayedService_new(t) : t \in 1..MaxDelay}

\* Service::poll_ready of the inner service, the clock reading t.
Service_poll_ready(svc, t) ==
    CASE svc.kind = "ErrorService" -> Ready(Err([type |-> "String", msg |-> "This service always error"]))
      [] svc.kind = "DelayedService" ->
            IF t >= svc.ready_after THEN Ready(Ok(Unit)) ELSE Pending
      [] OTHER -> Ready(Ok(Unit))

\* DelayedService::poll_ready spawns a thread that wakes the task's waker
\* at ready_after whenever it returns Pending.
Service_spawns_waker(svc, t) ==
    svc.kind = "DelayedService" /\ t < svc.ready_after

\* Service::call of the inner service: it receives the request (call is the
\* number of the Multiplexer::call that forwarded it) and returns a future,
\* named by its position in the log.
Service_call(svc, call, req) ==
    [svc EXCEPT !.calls = Append(@, [call |-> call, req |-> req])]

\* Responses and errors the inner futures complete with. Each service has
\* its own body type, with its own data type, and its own error type.
Chunk(side, bytes) ==
    [repr |-> IF side = "grpc" THEN "GrpcData" ELSE "WebData", bytes |-> bytes]

Body(side, data, trailers) ==
    [type |-> IF side = "grpc" THEN "GrpcBody" ELSE "WebBody",
     data |-> data, trailers |-> trailers]

Response(status, headers, body) ==
    [status |-> status, headers |-> headers, body |-> body]

Responses(side) ==
    { Response(200, <<Header("content-type", IF side = "grpc" THEN APPLICATION_GRPC ELSE TextHtml)>>,
               Body(side, <<Chunk(side, <<"o", "k">>)>>, Some(<<Header("from", side)>>))),
      Response(404, <<>>, Body(side, <<>>, None)) }

Errors(side) ==
    { [type |-> IF side = "grpc" THEN "GrpcError" ELSE "WebError", msg |-> "failed"] }

\* What one poll of an inner future can return.
InnerOutcomes(side) ==
    {Pending}
        \cup {Ready(Ok(r)) : r \in Responses(side)}
        \cup {Ready(Err(e)) : e \in Errors(side)}

\* --------------------------------------------------------------- Multiplexer
\* (Multiplexer_new_swapped: each service in the other's field.)
Multiplexer_new_swapped(grpc, web) == [grpc |-> web, web |-> grpc]
Multiplexer_new(grpc, web) == [grpc |-> grpc, web |-> web]

\* match (grpc, web) of poll_ready, both being Poll<()> after the `?`.
\* (poll_ready_match_any: ready as soon as one is; poll_ready_match_web:
\* only the web service decides; poll_ready_match_never: Pending in every
\* arm.)
poll_ready_match_any(grpc, web) ==
    IF grpc.poll = "Ready" \/ web.poll = "Ready" THEN Ready(Ok(Unit)) ELSE Pending
poll_ready_match_web(grpc, web) ==
    IF web.poll = "Ready" THEN Ready(Ok(Unit)) ELSE Pending
poll_ready_match_never(grpc, web) == Pending
poll_ready_match(grpc, web) ==
    IF grpc.poll = "Ready" /\ web.poll = "Ready" THEN Ready(Ok(Unit)) ELSE Pending

\* The `?` on a Poll<Result<(), E>>: Ready(Err(e)) returns from the function,
\* Ready(Ok(())) continues as Ready(()) and Pending as Pending.
\* (Try_branch_pending: Pending returns from the function as well.)
Try_branch_pending(p) ==
    IF IsReadyOk(p) THEN [return |-> FALSE, val |-> Ready(p.val.val)]
    ELSE [return |-> TRUE, val |-> p]
Try_branch(p) ==
    IF IsReadyErr(p) THEN [return |-> TRUE, val |-> p]
    ELSE [return |-> FALSE,
          val |-> IF p.poll = "Ready" THEN Ready(p.val.val) ELSE Pending]

\* Multiplexer::poll_ready. The grpc service reads the clock at t1 and the
\* web service at t2. polled lists the inner poll_ready calls made, in order,
\* each with what it returned.
\* (Multiplexer_poll_ready_swallow: a web error is not propagated;
\* Multiplexer_poll_ready_lazy: the web service is polled only once the grpc
\* service is ready; Multiplexer_poll_ready_web_first: the web service is
\* polled, and its error returned, before the grpc service.)
Multiplexer_poll_ready_swallow(mux, t1, t2) ==
    LET g == Service_poll_ready(mux.grpc, t1)
        w == Service_poll_ready(mux.web, t2)
    IN  [ret |-> IF IsReadyErr(map_err_to_boxed(g)) THEN map_err_to_boxed(g)
                 ELSE IF IsReadyOk(g) /\ IsReadyOk(w) THEN Ready(Ok(Unit)) ELSE Pending,
         polled |-> <<[side |-> "grpc", ret |-> g], [side |-> "web", ret |-> w]>>]
Multiplexer_poll_ready_lazy(mux, t1, t2) ==
    LET g == Service_poll_ready(mux.grpc, t1)
        w == Service_poll_ready(mux.web, t2)
    IN  IF IsReadyOk(g)
        THEN [ret |-> IF IsReadyErr(w) THEN map_err_to_boxed(w)
                      ELSE IF IsReadyOk(w) THEN Ready(Ok(Unit)) ELSE Pending,
              polled |-> <<[side |-> "grpc", ret |-> g], [side |-> "web", ret |-> w]>>]
        ELSE [ret |-> map_err_to_boxed(g),
              polled |-> <<[side |-> "grpc", ret |-> g]>>]
Multiplexer_poll_ready_web_first(mux, t1, t2) ==
    LET w == Service_poll_ready(mux.web, t1)
        web == Try_branch(map_err_to_boxed(w))
    IN  IF web.return
        THEN [ret |-> web.val, polled |-> <<[side |-> "web", ret |-> w]>>]
        ELSE LET g == Service_poll_ready(mux.grpc, t2)
                 grpc == Try_branch(map_err_to_boxed(g))
             IN  [ret |-> IF grpc.return THEN grpc.val
                          ELSE poll_ready_match(grpc.val, web.val),
                  polled |-> <<[side |-> "web", ret |-> w],
                               [side |-> "grpc", ret |-> g]>>]
Multiplexer_poll_ready(mux, t1, t2) ==
    LET g == Service_poll_ready(mux.grpc, t1)
        grpc == Try_branch(map_err_to_boxed(g))
    IN  IF grpc.return
        THEN [ret |-> grpc.val, polled |-> <<[side |-> "grpc", ret |-> g]>>]
        ELSE LET w == Service_poll_ready(mux.web, t2)
                 web == Try_branch(map_err_to_boxed(w))
             IN  [ret |-> IF web.return THEN web.val
                          ELSE poll_ready_match(grpc.val, web.val),
                  polled |-> <<[side |-> "grpc", ret |-> g],
                               [side |-> "web", ret |-> w]>>]

\* is_grpc of Multiplexer::call.
\* (is_grpc_ignore_case: the first letter in either case; is_grpc_exact:
\* equality instead of a prefix.)
is_grpc_ignore_case(req) ==
    LET x == HeaderMap_get(req.headers, "content-type")
    IN  IF x = None THEN FALSE
        ELSE starts_with(x.val, APPLICATION_GRPC) \/ starts_with(x.val, GrpcCapital)
is_grpc_exact(req) ==
    LET x == HeaderMap_get(req.headers, "content-type")
    IN  IF x = None THEN FALSE ELSE x.val = APPLICATION_GRPC
is_grpc(req) ==
    LET x == HeaderMap_get(req.headers, "content-type")
    IN  IF x = None THEN FALSE ELSE starts_with(x.val, APPLICATION_GRPC)

\* An EncapsulatedFuture: the variant and the inner future it wraps (the
\* inner service's n-th future). out is what its poll last returned.
EncapsulatedFuture(variant, n) == [variant |-> variant, inner |-> n, out |-> Pending]

\* Multiplexer::call, the call-th of this Multiplexer: the multiplexer after
\* it and the future it returns.
\* (Multiplexer_call_both: a grpc request is also handed to the web service;
\* Multiplexer_call_sticky: once a request went to the grpc service, every
\* later one does; Multiplexer_call_strip: the request is forwarded without
\* its Content-Type values.)
Multiplexer_call_both(mux, call, req) ==
    IF is_grpc(req)
    THEN [mux |-> [grpc |-> Service_call(mux.grpc, call, req),
                   web |-> Service_call(mux.web, call, req)],
          fut |-> EncapsulatedFuture("Grpc", Len(mux.grpc.calls) + 1)]
    ELSE [mux |-> [mux EXCEPT !.web = Service_call(@, call, req)],
          fut |-> EncapsulatedFuture("Web", Len(mux.web.calls) + 1)]
Multiplexer_call_sticky(mux, call, req) ==
    IF is_grpc(req) \/ mux.grpc.calls # <<>>
    THEN [mux |-> [mux EXCEPT !.grpc = Service_call(@, call, req)],
          fut |-> EncapsulatedFuture("Grpc", Len(mux.grpc.calls) + 1)]
    ELSE [mux |-> [mux EXCEPT !.web = Service_call(@, call, req)],
          fut |-> EncapsulatedFuture("Web", Len(mux.web.calls) + 1)]
Multiplexer_call_strip(mux, call, req) ==
    LET bare == [req EXCEPT !.headers =
                    SelectSeq(req.headers, LAMBDA h : h.name # "content-type")]
    IN  IF is_grpc(req)
        THEN [mux |-> [mux EXCEPT !.grpc = Service_call(@, call, bare)],
              fut |-> EncapsulatedFuture("Grpc", Len(mux.grpc.calls) + 1)]
        ELSE [mux |-> [mux EXCEPT !.web = Service_call(@, call, bare)],
              fut |-> EncapsulatedFuture("Web", Len(mux.web.calls) + 1)]
Multiplexer_call(mux, call, req) ==
    IF is_grpc(req)
    THEN [mux |-> [mux EXCEPT !.grpc = Service_call(@, call, req)],
          fut |-> EncapsulatedFuture("Grpc", Len(mux.grpc.calls) + 1)]
    ELSE [mux |-> [mux EXCEPT !.web = Service_call(@, call, req)],
          fut |-> EncapsulatedFuture("Web", Len(mux.web.calls) + 1)]

\* ------------------------------------------------- EncapsulatedBody, Future
\* An EncapsulatedBody: the variant and the inner body it wraps.
EncapsulatedBody(variant, body) == [variant |-> variant, body |-> body]

EncapsulatedBody_Grpc(body) == EncapsulatedBody("Grpc", body)
EncapsulatedBody_Web(body) == EncapsulatedBody("Web", body)

\* EncapsulatedBody::map_grpc, map_web: Response::map replaces the body and
\* keeps the status and the headers.
\* (map_grpc_as_web: the grpc body wrapped in the other variant.)
map_grpc_as_web(response) == [response EXCEPT !.body = EncapsulatedBody_Web(@)]
map_grpc(response) == [response EXCEPT !.body = EncapsulatedBody_Grpc(@)]

map_web(response) == [response EXCEPT !.body = EncapsulatedBody_Web(@)]

\* .map_ok(EncapsulatedBody::map_grpc), .map_ok(EncapsulatedBody::map_web)
\* on a Poll<Result<Response, E>>: only Ready(Ok(response)) is changed.
map_ok_map_grpc(p) ==
    IF IsReadyOk(p) THEN Ready(Ok(map_grpc(p.val.val))) ELSE p

map_ok_map_web(p) ==
    IF IsReadyOk(p) THEN Ready(Ok(map_web(p.val.val))) ELSE p

\* self.project(): the pinned inner future of the variant.
\* (EncapsulatedProj_swapped: the inner future of the other side;
\* EncapsulatedProj_first: the first inner future of the side, for every
\* future of it.)
EncapsulatedProj_swapped(fut) ==
    [side |-> IF fut.variant = "Grpc" THEN "web" ELSE "grpc", n |-> fut.inner]
EncapsulatedProj_first(fut) ==
    [side |-> IF fut.variant = "Grpc" THEN "grpc" ELSE "web", n |-> 1]
EncapsulatedProj(fut) ==
    [side |-> IF fut.variant = "Grpc" THEN "grpc" ELSE "web", n |-> fut.inner]

\* The mapping of EncapsulatedFuture::poll: what it returns when the inner
\* future of the variant returned inner.
EncapsulatedFuture_map(variant, inner) ==
    IF variant = "Grpc"
    THEN map_err_to_boxed(map_ok_map_grpc(inner))
    ELSE map_err_to_boxed(map_ok_map_web(inner))

\* EncapsulatedFuture::poll, the inner future returning inner: the future
\* after the poll, the inner future that was polled and what poll returns.
\* (EncapsulatedFuture_poll_retry: an inner error is kept back and the
\* future left to be polled again.)
EncapsulatedFuture_poll_retry(fut, inner) ==
    LET ret == IF IsReadyErr(inner) THEN Pending
               ELSE EncapsulatedFuture_map(fut.variant, inner)
    IN  [fut |-> [fut EXCEPT !.out = ret],
         polled |-> EncapsulatedProj(fut),
         ret |-> ret]
EncapsulatedFuture_poll(fut, inner) ==
    LET ret == EncapsulatedFuture_map(fut.variant, inner)
    IN  [fut |-> [fut EXCEPT !.out = ret],
         polled |-> EncapsulatedProj(fut),
         ret |-> ret]

\* A value that was dropped.
Dropped == [poll |-> "Dropped", opt |-> "Dropped"]

\* Dropping an EncapsulatedFuture drops the field of its variant, the inner
\* future it owns: the inner resources released.
\* (EncapsulatedFuture_drop_leak: the inner future is kept alive.)
EncapsulatedFuture_drop_leak(fut) == {}
EncapsulatedFuture_drop(fut) ==
    {[what |-> "future", side |-> EncapsulatedProj(fut).side, n |-> EncapsulatedProj(fut).n]}

\* ---------------------------------------------------- EncapsulatedBody polls
\* The inner bodies an EncapsulatedBody is built over: up to MaxChunks data
\* chunks, with or without trailers.
Chunks(side) == {Chunk(side, <<"b", "o">>), Chunk(side, <<"d", "y">>), Chunk(side, <<>>)}

Bodies(side) ==
    {Body(side, data, trailers) :
        data \in UNION {[1..n -> Chunks(side)] : n \in 0..MaxChunks},
        trailers \in {None, Some(<<Header("from", side)>>)}}

BodyErrors(side) ==
    { [type |-> IF side = "grpc" THEN "GrpcBodyError" ELSE "WebBodyError",
       msg |-> "body failed"] }

\* HttpBody::poll_data of an inner body: it is not ready yet, or it fails,
\* or it hands out its next chunk, or, with none left, ends the stream.
\* The body after the poll and what the poll returned.
InnerBody_poll_data(side, body, step) ==
    CASE step = "pending" -> [body |-> body, ret |-> Pending]
      [] step = "fail" ->
            [body |-> body,
             ret |-> Ready(Some(Err(CHOOSE e \in BodyErrors(side) : TRUE)))]
      [] OTHER ->
            IF body.data = <<>>
            THEN [body |-> body, ret |-> Ready(None)]
            ELSE [body |-> [body EXCEPT !.data = Tail(@)],
                  ret |-> Ready(Some(Ok(Head(body.data))))]

\* HttpBody::poll_trailers of an inner body: it is not ready yet, or it
\* fails, or it returns its trailers, if it has any.
InnerBody_poll_trailers(side, body, step) ==
    CASE step = "pending" -> [body |-> body, ret |-> Pending]
      [] step = "fail" ->
            [body |-> body, ret |-> Ready(Err(CHOOSE e \in BodyErrors(side) : TRUE))]
      [] OTHER -> [body |-> body, ret |-> Ready(Ok(body.trailers))]

\* into_data: the chunk as hyper::body::Bytes, the same bytes.
\* (into_data_truncated: the last byte is lost.)
into_data_truncated(data) ==
    [repr |-> "Bytes",
     bytes |-> IF data.bytes = <<>> THEN <<>>
               ELSE SubSeq(data.bytes, 1, Len(data.bytes) - 1)]
into_data(data) == [repr |-> "Bytes", bytes |-> data.bytes]

\* .map_ok(into_data) on a Poll<Option<Result<T, E>>>: only
\* Ready(Some(Ok(t))) is changed.
map_ok_into_data(p) ==
    IF p.poll = "Ready" /\ p.val.opt = "Some" /\ p.val.val.res = "Ok"
    THEN Ready(Some(Ok(into_data(p.val.val.val))))
    ELSE p

\* .map_err(to_boxed) on a Poll<Option<Result<T, E>>>: only
\* Ready(Some(Err(e))) is changed.
\* (data_map_err_end: the error becomes the end of the stream.)
data_map_err_end(p) ==
    IF p.poll = "Ready" /\ p.val.opt = "Some" /\ p.val.val.res = "Err"
    THEN Ready(None)
    ELSE p
data_map_err_to_boxed(p) ==
    IF p.poll = "Ready" /\ p.val.opt = "Some" /\ p.val.val.res = "Err"
    THEN Ready(Some(Err(to_boxed(p.val.val.err))))
    ELSE p

\* self.project(): the pinned inner body of the variant.
\* (BodyProj_swapped: a body of the other side.)
BodyProj_swapped(ebody) ==
    [side |-> IF ebody.variant = "Grpc" THEN "web" ELSE "grpc", body |-> ebody.body]
BodyProj(ebody) ==
    [side |-> IF ebody.variant = "Grpc" THEN "grpc" ELSE "web", body |-> ebody.body]

\* EncapsulatedBody::poll_data, the inner body taking the step: the
\* EncapsulatedBody after it, the side whose body was polled, what that
\* body returned and what poll_data returns.
\* (EncapsulatedBody_poll_data_buffering: a chunk taken from the inner body
\* is kept, and Pending returned.)
EncapsulatedBody_poll_data_buffering(ebody, step) ==
    LET proj == BodyProj(ebody)
        r == InnerBody_poll_data(proj.side, proj.body, step)
    IN  [ebody |-> [ebody EXCEPT !.body = r.body],
         polled |-> proj.side,
         inner |-> r.ret,
         ret |-> IF r.ret.poll = "Ready" /\ r.ret.val.opt = "Some" /\ r.ret.val.val.res = "Ok"
                 THEN Pending
                 ELSE data_map_err_to_boxed(map_ok_into_data(r.ret))]
EncapsulatedBody_poll_data(ebody, step) ==
    LET proj == BodyProj(ebody)
        r == InnerBody_poll_data(proj.side, proj.body, step)
    IN  [ebody |-> [ebody EXCEPT !.body = r.body],
         polled |-> proj.side,
         inner |-> r.ret,
         ret |-> data_map_err_to_boxed(map_ok_into_data(r.ret))]

\* EncapsulatedBody::poll_trailers, likewise.
\* (EncapsulatedBody_poll_trailers_none: the trailers are not handed on.)
EncapsulatedBody_poll_trailers_none(ebody, step) ==
    LET proj == BodyProj(ebody)
        r == InnerBody_poll_trailers(proj.side, proj.body, step)
    IN  [ebody |-> [ebody EXCEPT !.body = r.body],
         polled |-> proj.side,
         inner |-> r.ret,
         ret |-> IF IsReadyOk(r.ret) THEN Ready(Ok(None)) ELSE map_err_to_boxed(r.ret)]
EncapsulatedBody_poll_trailers(ebody, step) ==
    LET proj == BodyProj(ebody)
        r == InnerBody_poll_trailers(proj.side, proj.body, step)
    IN  [ebody |-> [ebody EXCEPT !.body = r.body],
         polled |-> proj.side,
         inner |-> r.ret,
         ret |-> map_err_to_boxed(r.ret)]

\* Dropping an EncapsulatedBody drops the field of its variant, the inner
\* body it owns, which the side's n-th inner future had produced.
EncapsulatedBody_drop(ebody, n) ==
    {[what |-> "body", side |-> BodyProj(ebody).side, n |-> n]}

\* ------------------------------------------------------------ make services
\* A make service a MakeMultiplexer owns. kind names its implementation:
\*   "Shared"   tower::make::Shared over a service it clones on every call
\*   "ReadyMakeService", "FailingMakeService", "FailingFutureMakeService",
\*   "DelayedMakeService"                               tests/common/svc.rs
\* service is the service its future produces, and targets the log of the
\* targets its call received, in order.
MakeService(kind, ready_after, service) ==
    [kind |-> kind, ready_after |-> ready_after, service |-> service, targets |-> <<>>]

HttpBodyService == Service("HttpBodyService", 0)

Shared_new(service) == MakeService("Shared", 0, service)
ReadyMakeService == MakeService("ReadyMakeService", 0, ReadyService)
FailingMakeService == MakeService("FailingMakeService", 0, ReadyService)
FailingFutureMakeService == MakeService("FailingFutureMakeService", 0, ReadyService)
DelayedMakeService_new(ready_after) ==
    MakeService("DelayedMakeService", ready_after, ReadyService)

\* The make services a MakeMultiplexer is built over in the tests.
TestMakeServices ==
    {Shared_new(HttpBodyService), Shared_new(ReadyService),
     ReadyMakeService, FailingMakeService, FailingFutureMakeService}
        \cup {DelayedMakeService_new(t) : t \in 1..MaxDelay}

FailingMakeService_get_err_string == "This service fails!"
FailingFutureMakeService_get_err_string == "This service future fails!"

\* Service::poll_ready of the inner make service, the clock reading t.
MakeService_poll_ready(mk, t) ==
    CASE mk.kind = "FailingMakeService" ->
            Ready(Err([type |-> "String", msg |-> FailingMakeService_get_err_string]))
      [] mk.kind = "DelayedMakeService" ->
            IF t >= mk.ready_after THEN Ready(Ok(Unit)) ELSE Pending
      [] OTHER -> Ready(Ok(Unit))

\* DelayedMakeService::poll_ready spawns a thread that wakes the task's
\* waker at ready_after whenever it returns Pending.
MakeService_spawns_waker(mk, t) ==
    mk.kind = "DelayedMakeService" /\ t < mk.ready_after

\* Service::call of the inner make service: it receives the target and
\* returns a future; output is what that future completes with.
MakeService_call(mk, target) ==
    [make |-> [mk EXCEPT !.targets = Append(@, target)],
     fut |-> [output |->
                IF mk.kind = "FailingFutureMakeService"
                THEN Err([type |-> "String", msg |-> FailingFutureMakeService_get_err_string])
                ELSE Ok(mk.service)]]

\* One poll of an inner make future: it completes with its output, or is
\* not ready yet.
MakeFuture_poll(fut, step) ==
    IF step = "ready" THEN Ready(fut.output) ELSE Pending

\* Display of a boxed error: err.to_string().
to_string(err) == err.boxed.msg

\* ----------------------------------------------------------- MakeMultiplexer
MakeMultiplexer_new(make_grpc, make_web) ==
    [make_grpc |-> make_grpc, make_web |-> make_web]

\* The make service of a side.
MakeOf(make, side) == IF side = "grpc" THEN make.make_grpc ELSE make.make_web

\* The match of MakeMultiplexer::poll_ready, both being Poll<()> after the
\* `?`: its four arms.
\* (MakeMultiplexer_poll_ready_match_any: the second and third arms Ready.)
MakeMultiplexer_poll_ready_match_any(grpc, web) ==
    CASE grpc.poll = "Ready" /\ web.poll = "Ready" -> Ready(Ok(Unit))
      [] grpc.poll = "Ready" /\ web.poll = "Pending" -> Ready(Ok(Unit))
      [] grpc.poll = "Pending" /\ web.poll = "Ready" -> Ready(Ok(Unit))
      [] grpc.poll = "Pending" /\ web.poll = "Pending" -> Pending
MakeMultiplexer_poll_ready_match(grpc, web) ==
    CASE grpc.poll = "Ready" /\ web.poll = "Ready" -> Ready(Ok(Unit))
      [] grpc.poll = "Ready" /\ web.poll = "Pending" -> Pending
      [] grpc.poll = "Pending" /\ web.poll = "Ready" -> Pending
      [] grpc.poll = "Pending" /\ web.poll = "Pending" -> Pending

\* MakeMultiplexer::poll_ready. The grpc make service reads the clock at t1
\* and the web make service at t2. polled lists the inner poll_ready calls
\* made, in order, each with what it returned.
\* (MakeMultiplexer_poll_ready_generic: an inner error is replaced by one
\* error of the MakeMultiplexer's own; MakeMultiplexer_poll_ready_lazy: the
\* web make service is polled only once the grpc make service is ready.)
MakeMultiplexer_poll_ready_generic(make, t1, t2) ==
    LET g == MakeService_poll_ready(make.make_grpc, t1)
        w == MakeService_poll_ready(make.make_web, t2)
        failed == Ready(Err(to_boxed([type |-> "String", msg |-> "make service failed"])))
    IN  IF IsReadyErr(g)
        THEN [ret |-> failed, polled |-> <<[side |-> "grpc", ret |-> g]>>]
        ELSE [ret |-> IF IsReadyErr(w) THEN failed
                      ELSE IF IsReadyOk(g) /\ IsReadyOk(w) THEN Ready(Ok(Unit)) ELSE Pending,
              polled |-> <<[side |-> "grpc", ret |-> g], [side |-> "web", ret |-> w]>>]
MakeMultiplexer_poll_ready_lazy(make, t1, t2) ==
    LET g == MakeService_poll_ready(make.make_grpc, t1)
        w == MakeService_poll_ready(make.make_web, t2)
    IN  IF IsReadyOk(g)
        THEN [ret |-> IF IsReadyErr(w) THEN map_err_to_boxed(w)
                      ELSE IF IsReadyOk(w) THEN Ready(Ok(Unit)) ELSE Pending,
              polled |-> <<[side |-> "grpc", ret |-> g], [side |-> "web", ret |-> w]>>]
        ELSE [ret |-> map_err_to_boxed(g),
              polled |-> <<[side |-> "grpc", ret |-> g]>>]
MakeMultiplexer_poll_ready(make, t1, t2) ==
    LET g == MakeService_poll_ready(make.make_grpc, t1)
        grpc == Try_branch(map_err_to_boxed(g))
    IN  IF grpc.return
        THEN [ret |-> grpc.val, polled |-> <<[side |-> "grpc", ret |-> g]>>]
        ELSE LET w == MakeService_poll_ready(make.make_web, t2)
                 web == Try_branch(map_err_to_boxed(w))
             IN  [ret |-> IF web.return THEN web.val
                          ELSE MakeMultiplexer_poll_ready_match(grpc.val, web.val),
                  polled |-> <<[side |-> "grpc", ret |-> g],
                               [side |-> "web", ret |-> w]>>]

\* futures::future::MaybeDone: a future not yet complete, its output once it
\* is, and nothing once the output was taken.
MaybeDone_Future(fut) == [state |-> "Future", fut |-> fut]
MaybeDone_Done(output) == [state |-> "Done", output |-> output]
MaybeDone_Gone == [state |-> "Gone"]

\* MaybeDone::poll: a future not yet complete is polled and keeps its output
\* if it completes; polled tells whether the future was polled.
MaybeDone_poll(md, step) ==
    IF md.state = "Future"
    THEN LET p == MakeFuture_poll(md.fut, step)
         IN  [md |-> IF p.poll = "Ready" THEN MaybeDone_Done(p.val) ELSE md,
              polled |-> TRUE, ret |-> p]
    ELSE [md |-> md, polled |-> FALSE, ret |-> Ready(Unit)]

\* futures::future::join
Join(grpc_future, web_future) ==
    [grpc |-> MaybeDone_Future(grpc_future), web |-> MaybeDone_Future(web_future)]

\* Join::poll: both futures are polled, the first before the second, unless
\* already complete; it is Ready with the pair of outputs once both are.
Join_poll(join, steps) ==
    LET g == MaybeDone_poll(join.grpc, steps.grpc)
        w == MaybeDone_poll(join.web, steps.web)
        all_done == g.md.state = "Done" /\ w.md.state = "Done"
        polled == (IF g.polled THEN <<[side |-> "grpc", ret |-> g.ret]>> ELSE <<>>)
                    \o (IF w.polled THEN <<[side |-> "web", ret |-> w.ret]>> ELSE <<>>)
    IN  IF all_done
        THEN [join |-> [grpc |-> MaybeDone_Gone, web |-> MaybeDone_Gone],
              polled |-> polled,
              ret |-> Ready([grpc |-> g.md.output, web |-> w.md.output])]
        ELSE [join |-> [grpc |-> g.md, web |-> w.md], polled |-> polled, ret |-> Pending]

\* MakeMultiplexerFuture::new. out is what its poll last returned.
MakeMultiplexerFuture_new(make_grpc_future, make_web_future) ==
    [inner |-> Join(make_grpc_future, make_web_future), out |-> Pending]

\* Clone::clone of the target.
Target_clone(req) == req

\* MakeMultiplexer::call: the target is cloned for the grpc make service and
\* moved into the web make service. called lists the inner calls made, in
\* order, each with the target it was given.
\* (MakeMultiplexer_call_grpc_twice: both futures come from the grpc make
\* service.)
MakeMultiplexer_call_grpc_twice(make, req) ==
    LET g == MakeService_call(make.make_grpc, Target_clone(req))
        w == MakeService_call(g.make, req)
    IN  [make |-> [make_grpc |-> w.make, make_web |-> make.make_web],
         fut |-> MakeMultiplexerFuture_new(g.fut, w.fut),
         called |-> <<[side |-> "grpc", target |-> Target_clone(req)],
                      [side |-> "grpc", target |-> req]>>]
MakeMultiplexer_call(make, req) ==
    LET g == MakeService_call(make.make_grpc, Target_clone(req))
        w == MakeService_call(make.make_web, req)
    IN  [make |-> [make_grpc |-> g.make, make_web |-> w.make],
         fut |-> MakeMultiplexerFuture_new(g.fut, w.fut),
         called |-> <<[side |-> "grpc", target |-> Target_clone(req)],
                      [side |-> "web", target |-> req]>>]

\* todo!() panics with this message.
Panic == [poll |-> "Panic", msg |-> "not yet implemented"]

\* MakeMultiplexerFuture::poll: the multiplexer after it, the inner futures
\* polled with what each returned, and what it returns.
\* (MakeMultiplexerFuture_poll_fail_fast: an inner error is returned as soon
\* as that inner future has completed.)
MakeMultiplexerFuture_poll_fail_fast(fut, steps) ==
    LET j == Join_poll(fut.inner, steps)
        g == MaybeDone_poll(fut.inner.grpc, steps.grpc).md
        w == MaybeDone_poll(fut.inner.web, steps.web).md
        ret == CASE g.state = "Done" /\ g.output.res = "Err" -> Ready(Err(to_boxed(g.output.err)))
                 [] w.state = "Done" /\ w.output.res = "Err" -> Ready(Err(to_boxed(w.output.err)))
                 [] j.ret.poll = "Ready" ->
                        Ready(Ok(Multiplexer_new(j.ret.val.grpc.val, j.ret.val.web.val)))
                 [] OTHER -> Pending
    IN  [fut |-> [inner |-> j.join, out |-> ret], polled |-> j.polled, ret |-> ret]
MakeMultiplexerFuture_poll(fut, steps) ==
    LET j == Join_poll(fut.inner, steps)
        output == j.ret.val
        ret == IF j.ret.poll = "Ready"
               THEN IF output.grpc.res = "Ok" /\ output.web.res = "Ok"
                    THEN Ready(Ok(Multiplexer_new(output.grpc.val, output.web.val)))
                    ELSE Panic
               ELSE Pending
    IN  [fut |-> [inner |-> j.join, out |-> ret], polled |-> j.polled, ret |-> ret]

\* ------------------------------------------------------------------ state
VARIABLES
    mux,        \* the Multiplexer: its grpc and its web service
    now,        \* Instant::now()
    threads,    \* sides whose DelayedService has a waker thread asleep
    notified,   \* the task's waker was woken since the last poll_ready
    lastReady,  \* the last Multiplexer::poll_ready: what it polled and returned
    reported,   \* sides whose poll_ready has returned Ready(Ok(()))
    reqs,       \* the requests passed to Multiplexer::call, in order
    futures,    \* the EncapsulatedFuture each call returned
    inners,     \* per side, what the last poll of each inner future returned
    polls,      \* inner future polls: by which future, of which inner future
    built,      \* the EncapsulatedBody as it was constructed
    ebody,      \* the EncapsulatedBody now: its variant, its inner body
    bstate,     \* "streaming", "ended" (no data left), "trailers", "failed"
    received,   \* the data chunks its poll_data has returned, in order
    bodyPolls,  \* inner body polls: which operation, on which side's body
    lastBody,   \* its last poll: what the inner body and what it returned
    make,       \* the MakeMultiplexer: its grpc and its web make service
    makeReady,  \* the last MakeMultiplexer::poll_ready: what it polled and returned
    makeReported, \* sides whose make service's poll_ready has returned Ready(Ok(()))
    makeFuture, \* the MakeMultiplexerFuture its call returned, if it was called
    makeInners, \* per side, what the last poll of the inner make future returned
    makeLog,    \* the inner make calls, in order; the sides the last poll polled
    respBodies, \* per future, the EncapsulatedBody of the response it completed with
    released    \* the inner futures and inner bodies that were dropped

muxVars ==
    <<mux, now, threads, notified, lastReady, reported, reqs, futures, inners, polls>>

bodyVars == <<built, ebody, bstate, received, bodyPolls, lastBody>>

makeVars == <<make, makeReady, makeReported, makeFuture, makeInners, makeLog>>

flightVars == <<respBodies, released>>

vars == <<muxVars, bodyVars, makeVars, flightVars>>

NoReady == [called |-> FALSE]

NoBodyPoll == [op |-> "none"]

\* An EncapsulatedBody just constructed over an inner body.
InitBody(eb) ==
    /\ built = eb
    /\ ebody = eb
    /\ bstate = "streaming"
    /\ received = <<>>
    /\ bodyPolls = {}
    /\ lastBody = NoBodyPoll

InitOver(grpc, web) ==
    /\ mux = Multiplexer_new(grpc, web)
    /\ now = 0
    /\ threads = {}
    /\ notified = FALSE
    /\ lastReady = NoReady
    /\ reported = {}
    /\ reqs = <<>>
    /\ futures = <<>>
    /\ inners = [side \in Sides |-> <<>>]
    /\ polls = {}
    /\ respBodies = [i \in 1..MaxCalls |-> None]
    /\ released = {}

\* No EncapsulatedBody under study: an empty web body, left alone.
IdleBody == InitBody(EncapsulatedBody_Web(Body("web", <<>>, None)))

\* A MakeMultiplexer just constructed over two make services.
InitMakeOver(make_grpc, make_web) ==
    /\ make = MakeMultiplexer_new(make_grpc, make_web)
    /\ makeReady = NoReady
    /\ makeReported = {}
    /\ makeFuture = None
    /\ makeInners = [side \in Sides |-> None]
    /\ makeLog = [calls |-> <<>>, polled |-> None]

\* No MakeMultiplexer under study: one over two ready make services, left
\* alone.
IdleMake == InitMakeOver(ReadyMakeService, ReadyMakeService)

\* Multiplexer::new over two service_fn services, as in the tests of lib.rs.
Init == InitOver(ServiceFn, ServiceFn) /\ IdleBody /\ IdleMake

\* Multiplexer::new over each pair of the services of tests/common/svc.rs.
InitReady ==
    /\ \E grpc \in TestServices, web \in TestServices : InitOver(grpc, web)
    /\ IdleBody
    /\ IdleMake

\* EncapsulatedBody::Grpc(body) or EncapsulatedBody::Web(body) over an inner
\* body of that side, as in the tests of lib.rs.
InitEncapsulatedBody ==
    /\ InitOver(ServiceFn, ServiceFn)
    /\ \/ \E body \in Bodies("grpc") : InitBody(EncapsulatedBody_Grpc(body))
       \/ \E body \in Bodies("web") : InitBody(EncapsulatedBody_Web(body))
    /\ IdleMake

\* MakeMultiplexer::new over each pair of the make services of the tests. No
\* Multiplexer exists before one is built.
InitMake ==
    /\ \E make_grpc \in TestMakeServices, make_web \in TestMakeServices :
            InitMakeOver(make_grpc, make_web)
    /\ InitOver(ServiceFn, ServiceFn)
    /\ IdleBody

\* --------------------------------------------------------------- actions
\* One Multiplexer::poll_ready call. Each inner service reads the clock when
\* it is polled, the web service not before the grpc service.
PollReady ==
    \E t2 \in now..(IF now < MaxTime THEN now + 1 ELSE now) :
        LET r == Multiplexer_poll_ready(mux, now, t2)
            at(k) == IF k = 1 THEN now ELSE t2
            svc(k) == mux[r.polled[k].side]
        IN  /\ lastReady' = [called |-> TRUE, ret |-> r.ret, polled |-> r.polled]
            /\ reported' = reported \cup
                   {r.polled[k].side : k \in {j \in 1..Len(r.polled) : IsReadyOk(r.polled[j].ret)}}
            /\ threads' = threads \cup
                   {r.polled[k].side : k \in {j \in 1..Len(r.polled) : Service_spawns_waker(svc(j), at(j))}}
            /\ now' = t2
            /\ notified' = FALSE
            /\ UNCHANGED <<mux, reqs, futures, inners, polls, bodyVars, flightVars, makeVars>>

\* Time passes.
Tick ==
    /\ now < MaxTime
    /\ now' = now + 1
    /\ UNCHANGED <<mux, threads, notified, lastReady, reported, reqs, futures, inners, polls, bodyVars, flightVars, makeVars>>

\* The waker thread of a DelayedService wakes the task once ready_after has
\* come.
Wake(side) ==
    /\ side \in threads
    /\ now >= mux[side].ready_after
    /\ threads' = threads \ {side}
    /\ notified' = TRUE
    /\ UNCHANGED <<mux, now, lastReady, reported, reqs, futures, inners, polls, bodyVars, flightVars, makeVars>>

\* One Multiplexer::call with a request. Every inner call made returns a
\* new inner future, not yet polled.
Call(req) ==
    /\ Len(reqs) < MaxCalls
    /\ LET r == Multiplexer_call(mux, Len(reqs) + 1, req)
       IN  /\ mux' = r.mux
           /\ futures' = Append(futures, r.fut)
           /\ inners' = [side \in Sides |->
                            IF Len(r.mux[side].calls) > Len(inners[side])
                            THEN Append(inners[side], Pending)
                            ELSE inners[side]]
    /\ reqs' = Append(reqs, req)
    /\ UNCHANGED <<now, threads, notified, lastReady, reported, polls, bodyVars, flightVars, makeVars>>

\* One poll of the i-th EncapsulatedFuture, not yet complete; its inner
\* future returns any of its outcomes. The caller keeps the body of the
\* response it completes with.
PollFuture(i) ==
    /\ futures[i].out = Pending
    /\ \E inner \in InnerOutcomes(EncapsulatedProj(futures[i]).side) :
        LET r == EncapsulatedFuture_poll(futures[i], inner)
        IN  /\ futures' = [futures EXCEPT ![i] = r.fut]
            /\ inners' = IF r.polled.n \in DOMAIN inners[r.polled.side]
                          THEN [inners EXCEPT ![r.polled.side][r.polled.n] = inner]
                          ELSE inners
            /\ polls' = polls \cup
                   {[fut |-> i, side |-> r.polled.side, n |-> r.polled.n]}
            /\ respBodies' = IF IsReadyOk(r.ret)
                             THEN [respBodies EXCEPT ![i] = Some(r.ret.val.val.body)]
                             ELSE respBodies
    /\ UNCHANGED <<mux, now, threads, notified, lastReady, reported, reqs, bodyVars, makeVars,
                   released>>

\* One poll_data of the EncapsulatedBody, its inner body taking a step.
PollData(step) ==
    /\ bstate = "streaming"
    /\ LET r == EncapsulatedBody_poll_data(ebody, step)
       IN  /\ ebody' = r.ebody
           /\ bodyPolls' = bodyPolls \cup {[op |-> "poll_data", side |-> r.polled]}
           /\ lastBody' = [op |-> "poll_data", inner |-> r.inner, ret |-> r.ret]
           /\ received' = IF r.ret.poll = "Ready" /\ r.ret.val.opt = "Some"
                                /\ r.ret.val.val.res = "Ok"
                           THEN Append(received, r.ret.val.val.val)
                           ELSE received
           /\ bstate' = CASE r.ret = Pending -> bstate
                           [] r.ret = Ready(None) -> "ended"
                           [] r.ret.val.val.res = "Err" -> "failed"
                           [] OTHER -> bstate
    /\ UNCHANGED <<muxVars, makeVars, flightVars, built>>

\* One poll_trailers of the EncapsulatedBody, its inner body taking a step.
PollTrailers(step) ==
    /\ bstate \in {"streaming", "ended"}
    /\ LET r == EncapsulatedBody_poll_trailers(ebody, step)
       IN  /\ ebody' = r.ebody
           /\ bodyPolls' = bodyPolls \cup {[op |-> "poll_trailers", side |-> r.polled]}
           /\ lastBody' = [op |-> "poll_trailers", inner |-> r.inner, ret |-> r.ret]
           /\ bstate' = CASE r.ret = Pending -> bstate
                           [] r.ret.val.res = "Err" -> "failed"
                           [] OTHER -> "trailers"
    /\ UNCHANGED <<muxVars, makeVars, flightVars, built, received>>

\* One MakeMultiplexer::poll_ready call. Each inner make service reads the
\* clock when it is polled, the web one not before the grpc one.
MakePollReady ==
    \E t2 \in now..(IF now < MaxTime THEN now + 1 ELSE now) :
        LET r == MakeMultiplexer_poll_ready(make, now, t2)
            at(k) == IF k = 1 THEN now ELSE t2
            mk(k) == MakeOf(make, r.polled[k].side)
        IN  /\ makeReady' = [called |-> TRUE, ret |-> r.ret, polled |-> r.polled]
            /\ makeReported' = makeReported \cup
                   {r.polled[k].side : k \in {j \in 1..Len(r.polled) : IsReadyOk(r.polled[j].ret)}}
            /\ threads' = threads \cup
                   {r.polled[k].side : k \in {j \in 1..Len(r.polled) : MakeService_spawns_waker(mk(j), at(j))}}
            /\ now' = t2
            /\ notified' = FALSE
            /\ UNCHANGED <<mux, lastReady, reported, reqs, futures, inners, polls, bodyVars, flightVars,
                           make, makeFuture, makeInners, makeLog>>

\* The waker thread of a DelayedMakeService wakes the task once ready_after
\* has come.
MakeWake(side) ==
    /\ side \in threads
    /\ now >= MakeOf(make, side).ready_after
    /\ threads' = threads \ {side}
    /\ notified' = TRUE
    /\ UNCHANGED <<mux, now, lastReady, reported, reqs, futures, inners, polls, bodyVars, flightVars, makeVars>>

\* MakeMultiplexer::call with a target; the make service is used for one
\* Multiplexer, as oneshot does.
MakeCall(target) ==
    /\ makeFuture = None
    /\ LET r == MakeMultiplexer_call(make, target)
       IN  /\ make' = r.make
           /\ makeFuture' = Some(r.fut)
           /\ makeLog' = [makeLog EXCEPT !.calls = @ \o r.called]
    /\ makeInners' = [side \in Sides |-> Some(Pending)]
    /\ UNCHANGED <<muxVars, bodyVars, flightVars, makeReady, makeReported>>

\* One poll of the MakeMultiplexerFuture, not yet complete; each inner make
\* future polled completes or not. The caller keeps the Multiplexer the
\* future completes with.
PollMake(steps) ==
    /\ makeFuture # None
    /\ makeFuture.val.out = Pending
    /\ LET r == MakeMultiplexerFuture_poll(makeFuture.val, steps)
       IN  /\ makeFuture' = Some(r.fut)
           /\ makeInners' = [side \in Sides |->
                    IF \E k \in DOMAIN r.polled : r.polled[k].side = side
                    THEN Some((CHOOSE x \in {r.polled[k] : k \in DOMAIN r.polled} : x.side = side).ret)
                    ELSE makeInners[side]]
           /\ makeLog' = [makeLog EXCEPT !.polled =
                              Some({r.polled[k].side : k \in DOMAIN r.polled})]
           /\ mux' = IF IsReadyOk(r.ret) THEN r.ret.val.val ELSE mux
    /\ UNCHANGED <<now, threads, notified, lastReady, reported, reqs, futures, inners, polls,
                   bodyVars, flightVars, make, makeReady, makeReported>>

\* The one request the built Multiplexer is called with, as oneshot does.
CallBuilt(req) ==
    /\ makeFuture # None
    /\ IsReadyOk(makeFuture.val.out)
    /\ reqs = <<>>
    /\ Call(req)

Next ==
    \/ \E req \in Requests : Call(req)
    \/ \E i \in DOMAIN futures : PollFuture(i)

Spec == Init /\ [][Next]_vars

NextReady ==
    \/ PollReady
    \/ Tick
    \/ \E side \in Sides : Wake(side)

SpecReady == InitReady /\ [][NextReady]_vars

\* The caller of ServiceExt::ready: it polls Multiplexer::poll_ready when it
\* starts and again each time its waker was woken, until one poll is Ready.
CallerPoll ==
    /\ IF lastReady.called THEN lastReady.ret = Pending /\ notified ELSE TRUE
    /\ PollReady

NextReadyLive ==
    \/ CallerPoll
    \/ Tick
    \/ \E side \in Sides : Wake(side)

\* Time passes, a waker thread that may wake does, and the executor polls
\* the task again once it was woken.
FairReady ==
    /\ WF_vars(Tick)
    /\ \A side \in Sides : WF_vars(Wake(side))
    /\ WF_vars(CallerPoll)

SpecReadyLive == InitReady /\ [][NextReadyLive]_vars /\ FairReady

\* poll_ready and call in any order, over the services of the tests; time
\* passes between the clock readings of poll_ready.
NextRoute ==
    \/ PollReady
    \/ \E req \in Requests : Call(req)

SpecRoute == InitReady /\ [][NextRoute]_vars

BodySteps == {"pending", "progress", "fail"}

\* One poll_data of the body of the response the i-th future completed
\* with, its inner body taking a step.
PollResponseData(i, step) ==
    /\ i \in DOMAIN futures
    /\ respBodies[i].opt = "Some"
    /\ LET r == EncapsulatedBody_poll_data(respBodies[i].val, step)
       IN  respBodies' = [respBodies EXCEPT ![i] = Some(r.ebody)]
    /\ UNCHANGED <<muxVars, bodyVars, makeVars, released>>

\* The i-th EncapsulatedFuture is dropped before it completed.
DropFuture(i) ==
    /\ futures[i].out = Pending
    /\ futures' = [futures EXCEPT ![i].out = Dropped]
    /\ released' = released \cup EncapsulatedFuture_drop(futures[i])
    /\ UNCHANGED <<mux, now, threads, notified, lastReady, reported, reqs, inners, polls,
                   bodyVars, makeVars, respBodies>>

\* The body of the i-th response is dropped, drained or not.
DropBody(i) ==
    /\ i \in DOMAIN futures
    /\ respBodies[i].opt = "Some"
    /\ respBodies' = [respBodies EXCEPT ![i] = Dropped]
    /\ released' = released \cup EncapsulatedBody_drop(respBodies[i].val, futures[i].inner)
    /\ UNCHANGED <<muxVars, bodyVars, makeVars>>

\* The requests of the calls in flight: one for each service.
FlightRequests ==
    { Request("POST", "/svc/Say", <<Header("content-type", GrpcProto)>>, "frame"),
      Request("GET", "/index", <<Header("content-type", TextHtml)>>, "") }

\* Several calls in flight on one Multiplexer: their futures and the bodies
\* of their responses polled and dropped in any order.
NextInFlight ==
    \/ \E req \in FlightRequests : Call(req)
    \/ \E i \in DOMAIN futures : PollFuture(i)
    \/ \E i \in DOMAIN futures, step \in BodySteps :
            PollResponseData(i, step)
    \/ \E i \in DOMAIN futures : DropFuture(i)
    \/ \E i \in DOMAIN futures : DropBody(i)

SpecInFlight == Init /\ [][NextInFlight]_vars

NextBody ==
    \/ \E step \in BodySteps : PollData(step)
    \/ \E step \in BodySteps : PollTrailers(step)

SpecBody == InitEncapsulatedBody /\ [][NextBody]_vars

\* Targets a MakeMultiplexer is called with.
Targets == {Unit, [addr |-> "peer"]}

MakeSteps == [Sides -> {"pending", "ready"}]

NextMake ==
    \/ MakePollReady
    \/ Tick
    \/ \E side \in Sides : MakeWake(side)
    \/ \E target \in Targets : MakeCall(target)
    \/ \E steps \in MakeSteps : PollMake(steps)
    \/ \E req \in Requests : CallBuilt(req)

SpecMake == InitMake /\ [][NextMake]_vars

\* ------------------------------------------------------------ properties
\* The Content-Type rule of the documentation, stated byte by byte on the
\* first Content-Type value of the request.
ContentTypeValues(req) ==
    {k \in DOMAIN req.headers : req.headers[k].name = "content-type"}

FirstContentType(req) ==
    req.headers[CHOOSE k \in ContentTypeValues(req) :
                    \A j \in ContentTypeValues(req) : k <= j].value

GrpcPrefixed(req) ==
    /\ ContentTypeValues(req) # {}
    /\ \A k \in DOMAIN APPLICATION_GRPC :
          /\ k \in DOMAIN FirstContentType(req)
          /\ FirstContentType(req)[k] = APPLICATION_GRPC[k]

\* The side's service received, in its call, the request of the i-th
\* Multiplexer::call.
ReceivedBy(side, i) ==
    \E n \in DOMAIN mux[side].calls :
        mux[side].calls[n] = [call |-> i, req |-> reqs[i]]

\* The side's service was called on behalf of the i-th Multiplexer::call.
InvokedFor(side, i) ==
    \E n \in DOMAIN mux[side].calls : mux[side].calls[n].call = i

\* C1: a request with no Content-Type header, or whose Content-Type value
\* does not start with the bytes application/grpc (a strict prefix of it and
\* another letter case included), is received by the web service's call, and
\* the grpc service's call is never invoked for it.
C1_OtherRequestsGoToWeb ==
    \A i \in DOMAIN reqs :
        ~GrpcPrefixed(reqs[i]) => ReceivedBy("web", i) /\ ~InvokedFor("grpc", i)

C1_Witness ==
    \E i, j \in DOMAIN reqs :
        /\ reqs[i].headers = <<Header("content-type", GrpcStrictPrefix)>>
        /\ reqs[j].headers = <<Header("content-type", GrpcCapital)>>
        /\ ReceivedBy("web", i) /\ ReceivedBy("web", j)

\* C2: a request whose Content-Type value starts with application/grpc, with
\* any suffix, is received by the grpc service's call, and the web service's
\* call is never invoked for it.
C2_GrpcRequestsGoToGrpc ==
    \A i \in DOMAIN reqs :
        GrpcPrefixed(reqs[i]) => ReceivedBy("grpc", i) /\ ~InvokedFor("web", i)

C2_Witness ==
    \E i, j \in DOMAIN reqs :
        /\ reqs[i].headers = <<Header("content-type", GrpcProto)>>
        /\ reqs[j].headers = <<Header("content-type", APPLICATION_GRPC)>>
        /\ ReceivedBy("grpc", i) /\ ReceivedBy("grpc", j)

\* C3: after any sequence of Multiplexer::call operations the inner services
\* were called as many times as the Multiplexer, and each Multiplexer::call
\* called exactly one of the two services exactly once.
C3_ExactlyOneInnerCall ==
    /\ Len(mux.grpc.calls) + Len(mux.web.calls) = Len(reqs)
    /\ \A i \in DOMAIN reqs :
          Cardinality({n \in DOMAIN mux.grpc.calls : mux.grpc.calls[n].call = i})
            + Cardinality({n \in DOMAIN mux.web.calls : mux.web.calls[n].call = i}) = 1

C3_Witness ==
    /\ Len(reqs) >= 2
    /\ Len(mux.grpc.calls) >= 1
    /\ Len(mux.web.calls) >= 1

\* What the last Multiplexer::poll_ready got from the side's poll_ready, if
\* it called it.
PolledSides == {lastReady.polled[k].side : k \in DOMAIN lastReady.polled}

InnerReturned(side, p) ==
    \E k \in DOMAIN lastReady.polled :
        lastReady.polled[k].side = side /\ lastReady.polled[k].ret = p

InnerErred(side) ==
    \E k \in DOMAIN lastReady.polled :
        /\ lastReady.polled[k].side = side
        /\ lastReady.polled[k].ret.poll = "Ready"
        /\ lastReady.polled[k].ret.val.res = "Err"

\* C4: Multiplexer::poll_ready returns Ready(Ok) exactly when both inner
\* poll_ready calls returned Ready(Ok) during that call; when neither reports
\* an error and at least one reports Pending, it returns Pending.
C4_ReadyIffBothReady ==
    lastReady.called =>
        /\ lastReady.ret = Ready(Ok(Unit))
              <=> /\ InnerReturned("grpc", Ready(Ok(Unit)))
                  /\ InnerReturned("web", Ready(Ok(Unit)))
        /\ (/\ \A side \in Sides : ~InnerErred(side)
            /\ \E side \in Sides : InnerReturned(side, Pending))
              => lastReady.ret = Pending

C4_Witness ==
    /\ lastReady.called
    /\ lastReady.ret = Pending
    /\ InnerReturned("grpc", Ready(Ok(Unit)))
    /\ InnerReturned("web", Pending)

\* C5: with one service immediately ready and the other ready only from a
\* later instant, in either position, the Multiplexer never returns Ready
\* before the delayed service has returned Ready (so not before its instant).
C5_NotReadyBeforeDelayed ==
    \A side \in Sides :
        (/\ mux[side].kind = "DelayedService"
         /\ mux[Other(side)].kind = "ReadyService"
         /\ lastReady.called
         /\ lastReady.ret = Ready(Ok(Unit)))
            => /\ side \in reported
               /\ now >= mux[side].ready_after

C5_Witness ==
    /\ mux.grpc.kind = "DelayedService"
    /\ mux.web.kind = "ReadyService"
    /\ "grpc" \in threads
    /\ lastReady.called
    /\ lastReady.ret = Ready(Ok(Unit))

\* C6: when one service's poll_ready reports an error and the other is
\* ready, in either position, Multiplexer::poll_ready reports an error.
C6_InnerErrorPropagates ==
    \A side \in Sides :
        (/\ mux[side].kind = "ErrorService"
         /\ mux[Other(side)].kind = "ReadyService"
         /\ lastReady.called)
            => /\ lastReady.ret.poll = "Ready"
               /\ lastReady.ret.val.res = "Err"

C6_Witness ==
    /\ mux.grpc.kind = "ReadyService"
    /\ mux.web.kind = "ErrorService"
    /\ lastReady.called
    /\ InnerReturned("grpc", Ready(Ok(Unit)))
    /\ InnerErred("web")
    /\ lastReady.ret.poll = "Ready"
    /\ lastReady.ret.val.res = "Err"

\* C7, as stated: every Multiplexer::poll_ready call invokes the poll_ready
\* of both inner services; it does not return the grpc service's error
\* before the web service's check was invoked.
C7_BothAlwaysPolled ==
    lastReady.called => PolledSides = Sides

\* C7, amended: every Multiplexer::poll_ready call invokes the grpc service's
\* poll_ready first, and invokes the web service's poll_ready after it
\* exactly when the grpc service did not report an error; a grpc error is
\* returned without the web service being polled.
C7_WebPolledUnlessGrpcErred ==
    lastReady.called =>
        /\ Len(lastReady.polled) >= 1
        /\ lastReady.polled[1].side = "grpc"
        /\ IF InnerErred("grpc")
           THEN Len(lastReady.polled) = 1
           ELSE /\ Len(lastReady.polled) = 2
                /\ lastReady.polled[2].side = "web"

C7_Witness ==
    /\ lastReady.called
    /\ InnerReturned("grpc", Pending)
    /\ InnerReturned("web", Pending)

\* The variant the routing rule gives the future of a request.
RoutedVariant(req) == IF GrpcPrefixed(req) THEN "Grpc" ELSE "Web"

VariantSide(variant) == IF variant = "Grpc" THEN "grpc" ELSE "web"

\* C8: the variant of an EncapsulatedFuture is the one the routing decision
\* gave it at construction, whatever polls have happened since, and every
\* poll of it polls only the inner future its own call created on that side.
C8_FutureKeepsItsVariant ==
    /\ DOMAIN futures = DOMAIN reqs
    /\ \A i \in DOMAIN futures :
          /\ futures[i].variant = RoutedVariant(reqs[i])
          /\ \A p \in polls :
                p.fut = i =>
                    /\ p.side = VariantSide(RoutedVariant(reqs[i]))
                    /\ p.n \in DOMAIN mux[p.side].calls
                    /\ mux[p.side].calls[p.n].call = i

C8_Witness ==
    \E i, j \in DOMAIN futures :
        /\ futures[i].variant = "Grpc"
        /\ futures[j].variant = "Web"
        /\ \E p \in polls : p.fut = i
        /\ \E p \in polls : p.fut = j
        /\ futures[i].out # Pending
        /\ futures[j].out = Pending

\* The inner future the i-th Multiplexer::call created: the n-th of the side.
InnerOf(side, n, i) ==
    /\ n \in DOMAIN mux[side].calls
    /\ n \in DOMAIN inners[side]
    /\ mux[side].calls[n].call = i

\* C9: when the inner future completes with a response, the
\* EncapsulatedFuture completes with a response of the same status and
\* headers whose body is the EncapsulatedBody of the routed variant around
\* exactly the inner body.
C9_ResponseBodyEncapsulated ==
    \A i \in DOMAIN futures : \A side \in Sides : \A n \in DOMAIN inners[side] :
        (/\ InnerOf(side, n, i)
         /\ inners[side][n].poll = "Ready"
         /\ inners[side][n].val.res = "Ok") =>
            futures[i].out =
                Ready(Ok([status |-> inners[side][n].val.val.status,
                          headers |-> inners[side][n].val.val.headers,
                          body |-> [variant |-> RoutedVariant(reqs[i]),
                                    body |-> inners[side][n].val.val.body]]))

C9_Witness ==
    \E i, j \in DOMAIN futures :
        /\ futures[i].out.poll = "Ready" /\ futures[i].out.val.res = "Ok"
        /\ futures[i].out.val.val.body.variant = "Grpc"
        /\ futures[i].out.val.val.status = 200
        /\ inners.grpc[futures[i].inner].poll = "Ready"
        /\ futures[j].out.poll = "Ready" /\ futures[j].out.val.res = "Ok"
        /\ futures[j].out.val.val.body.variant = "Web"
        /\ futures[j].out.val.val.status = 404
        /\ inners.web[futures[j].inner].poll = "Ready"

\* C10: when the inner future completes with an error, the EncapsulatedFuture
\* completes with the boxed conversion of exactly that error, never with a
\* response.
C10_ErrorBoxed ==
    \A i \in DOMAIN futures : \A side \in Sides : \A n \in DOMAIN inners[side] :
        (/\ InnerOf(side, n, i)
         /\ inners[side][n].poll = "Ready"
         /\ inners[side][n].val.res = "Err") =>
            futures[i].out = Ready(Err([boxed |-> inners[side][n].val.err]))

C10_Witness ==
    \E i, j \in DOMAIN futures :
        /\ futures[i].variant = "Grpc"
        /\ futures[i].out.poll = "Ready" /\ futures[i].out.val.res = "Err"
        /\ inners.grpc[futures[i].inner].poll = "Ready"
        /\ futures[j].variant = "Web"
        /\ futures[j].out.poll = "Ready" /\ futures[j].out.val.res = "Err"
        /\ inners.web[futures[j].inner].poll = "Ready"

\* ------------------------------------------------- properties of the body
\* C11: an EncapsulatedBody constructed as one variant is of that variant
\* after any sequence of poll_data and poll_trailers calls, and each of these
\* calls polls only the body of that variant's side.
C11_BodyKeepsItsVariant ==
    /\ ebody.variant = built.variant
    /\ \A p \in bodyPolls : p.side = VariantSide(built.variant)

C11_Witness ==
    /\ built.variant = "Grpc"
    /\ [op |-> "poll_data", side |-> "grpc"] \in bodyPolls
    /\ [op |-> "poll_trailers", side |-> "grpc"] \in bodyPolls
    /\ Len(received) >= 1
    /\ bstate = "trailers"

\* The bytes of a sequence of chunks, concatenated.
RECURSIVE BytesOf(_)
BytesOf(chunks) ==
    IF chunks = <<>> THEN <<>> ELSE Head(chunks).bytes \o BytesOf(Tail(chunks))

\* C12: the chunks poll_data has returned are, one for one and in order, the
\* first chunks of the inner body as constructed, as Bytes; once poll_data
\* has returned the end of the stream their bytes are exactly the bytes of
\* that body.
C12_BodyRoundTrip ==
    /\ Len(received) <= Len(built.body.data)
    /\ \A k \in DOMAIN received :
          /\ received[k].repr = "Bytes"
          /\ received[k].bytes = built.body.data[k].bytes
    /\ bstate = "ended" =>
          /\ Len(received) = Len(built.body.data)
          /\ BytesOf(received) = BytesOf(built.body.data)

C12_Witness ==
    /\ built.variant = "Web"
    /\ bstate = "ended"
    /\ Len(received) >= 2
    /\ received[1].bytes # received[2].bytes
    /\ BytesOf(received) # <<>>

\* C13: when poll_trailers returns the trailers, they are the trailers set on
\* the inner body, unchanged, and none when the inner body has none.
C13_TrailersUnchanged ==
    (lastBody.op = "poll_trailers" /\ bstate = "trailers") =>
        lastBody.ret = Ready(Ok(built.body.trailers))

C13_Witness ==
    /\ lastBody.op = "poll_trailers"
    /\ bstate = "trailers"
    /\ built.variant = "Web"
    /\ built.body.trailers = Some(<<Header("from", "web")>>)
    /\ lastBody.ret = Ready(Ok(Some(<<Header("from", "web")>>)))

\* ------------------------------------- properties of the MakeMultiplexer
\* What the last MakeMultiplexer::poll_ready got from the side's poll_ready,
\* if it called it.
MakeInnerReturned(side, p) ==
    \E k \in DOMAIN makeReady.polled :
        makeReady.polled[k].side = side /\ makeReady.polled[k].ret = p

\* C14: MakeMultiplexer::poll_ready returns Ready(Ok) exactly when both
\* inner make services' poll_ready returned Ready(Ok) during that call; with
\* one or both of them delayed it never returns Ready before every delayed
\* make service has returned Ready (so not before its instant).
C14_MakeReadyIffBothReady ==
    makeReady.called =>
        /\ makeReady.ret = Ready(Ok(Unit))
              <=> /\ MakeInnerReturned("grpc", Ready(Ok(Unit)))
                  /\ MakeInnerReturned("web", Ready(Ok(Unit)))
        /\ \A side \in Sides :
              (/\ MakeOf(make, side).kind = "DelayedMakeService"
               /\ makeReady.ret = Ready(Ok(Unit)))
                  => /\ side \in makeReported
                     /\ now >= MakeOf(make, side).ready_after

C14_Witness ==
    /\ make.make_grpc.kind = "DelayedMakeService"
    /\ make.make_web.kind = "DelayedMakeService"
    /\ make.make_grpc.ready_after # make.make_web.ready_after
    /\ makeReady.called
    /\ makeReady.ret = Ready(Ok(Unit))

\* The side's make service would return Ready(Ok) from a poll_ready now.
MakeIsReady(side) ==
    MakeService_poll_ready(MakeOf(make, side), now) = Ready(Ok(Unit))

\* C15: when one make service's poll_ready fails with a message and the
\* other is ready, in either position, MakeMultiplexer::poll_ready fails with
\* an error whose message is that same message.
C15_MakeErrorKeepsMessage ==
    \A side \in Sides :
        (/\ makeReady.called
         /\ MakeOf(make, side).kind = "FailingMakeService"
         /\ MakeIsReady(Other(side)))
            => /\ IsReadyErr(makeReady.ret)
               /\ to_string(makeReady.ret.val.err) = FailingMakeService_get_err_string

C15_Witness ==
    /\ makeReady.called
    /\ make.make_web.kind = "FailingMakeService"
    /\ MakeInnerReturned("grpc", Ready(Ok(Unit)))
    /\ IsReadyErr(makeReady.ret)
    /\ to_string(makeReady.ret.val.err) = "This service fails!"

\* The side's inner make future has completed, with this output.
Settled(side, output) == makeInners[side] = Some(Ready(output))

Unsettled(side) == makeInners[side] = Some(Pending)

\* C16: the MakeMultiplexerFuture is a join: as long as either inner make
\* future has not completed it is Pending, whichever side is the slow one
\* and whether the one that completed did with Ok or with Err.
C16_BuildIsAJoin ==
    (\E side \in Sides : Unsettled(side)) => makeFuture.val.out = Pending

C16_Witness ==
    /\ \E e \in {[type |-> "String", msg |-> FailingFutureMakeService_get_err_string]} :
            Settled("grpc", Err(e))
    /\ Unsettled("web")
    /\ makeFuture.val.out = Pending

\* C17: when one inner make future fails and the other succeeds, in either
\* position, the MakeMultiplexerFuture completes with that side's error.
C17_OneFailureSurfaces ==
    \A side \in Sides :
        (/\ makeFuture # None
         /\ makeInners[side] # None
         /\ IsReadyErr(makeInners[side].val)
         /\ IsReadyOk(makeInners[Other(side)].val))
            => makeFuture.val.out = Ready(Err(to_boxed(makeInners[side].val.val.err)))

\* C18: when both inner make futures fail, the MakeMultiplexerFuture
\* completes with an error: it neither panics nor stays unresolved.
C18_BothFailuresHandled ==
    (/\ makeFuture # None
     /\ \A side \in Sides : makeInners[side] # None /\ IsReadyErr(makeInners[side].val))
        => IsReadyErr(makeFuture.val.out)

\* C19: when both inner make futures succeed, the MakeMultiplexerFuture
\* completes with a Multiplexer whose grpc service is the one the grpc make
\* service produced and whose web service the one the web make service
\* produced, and a request to it goes to one of them by its Content-Type.
C19_BuiltFromBothProducts ==
    (makeFuture # None /\ IsReadyOk(makeFuture.val.out)) =>
        /\ makeFuture.val.out.val.val.grpc = make.make_grpc.service
        /\ makeFuture.val.out.val.val.web = make.make_web.service
        /\ mux.grpc.kind = make.make_grpc.service.kind
        /\ mux.web.kind = make.make_web.service.kind
        /\ \A i \in DOMAIN reqs :
              IF GrpcPrefixed(reqs[i])
              THEN ReceivedBy("grpc", i) /\ ~InvokedFor("web", i)
              ELSE ReceivedBy("web", i) /\ ~InvokedFor("grpc", i)

C19_Witness ==
    /\ make.make_grpc.kind = "Shared" /\ make.make_grpc.service = HttpBodyService
    /\ make.make_web.kind = "Shared" /\ make.make_web.service = ReadyService
    /\ makeFuture # None
    /\ IsReadyOk(makeFuture.val.out)
    /\ mux.grpc.kind = "HttpBodyService"
    /\ reqs # <<>>
    /\ GrpcPrefixed(reqs[1])
    /\ ReceivedBy("grpc", 1)

\* -------------------------------------- an error and a Pending in one call
\* The side's service was Pending in the last Multiplexer::poll_ready: it
\* returned Pending, or it was not polled and would have.
PendingInCall(side) ==
    \/ InnerReturned(side, Pending)
    \/ /\ side \notin PolledSides
       /\ Service_poll_ready(mux[side], now) = Pending

\* C20: when in one Multiplexer::poll_ready one service reports an error and
\* the other is Pending, in either position, that call returns the error and
\* not Pending.
C20_ErrorBeatsPending ==
    \A side \in Sides :
        (/\ lastReady.called
         /\ mux[side].kind = "ErrorService"
         /\ PendingInCall(Other(side)))
            => /\ IsReadyErr(lastReady.ret)
               /\ lastReady.ret = map_err_to_boxed(Service_poll_ready(mux[side], now))

C20_Witness ==
    /\ lastReady.called
    /\ mux.web.kind = "ErrorService"
    /\ InnerReturned("grpc", Pending)
    /\ InnerErred("web")
    /\ IsReadyErr(lastReady.ret)

\* ------------------------------------------- both sides failing readiness
\* C21: when both services' poll_ready would report an error in one
\* Multiplexer::poll_ready, the error returned is the grpc service's, boxed:
\* the grpc service is the only one polled and the web service's error is
\* never obtained.
C21_GrpcErrorWins ==
    (/\ lastReady.called
     /\ IsReadyErr(Service_poll_ready(mux.grpc, now))
     /\ IsReadyErr(Service_poll_ready(mux.web, now)))
        => /\ lastReady.polled =
                 <<[side |-> "grpc", ret |-> Service_poll_ready(mux.grpc, now)]>>
           /\ lastReady.ret = map_err_to_boxed(lastReady.polled[1].ret)

C21_Witness ==
    /\ lastReady.called
    /\ mux.grpc.kind = "ErrorService"
    /\ mux.web.kind = "ErrorService"
    /\ InnerErred("grpc")
    /\ IsReadyErr(lastReady.ret)

\* The sides whose make service the last MakeMultiplexer::poll_ready polled.
MakePolledSides == {makeReady.polled[k].side : k \in DOMAIN makeReady.polled}

MakeInnerErred(side) ==
    \E k \in DOMAIN makeReady.polled :
        makeReady.polled[k].side = side /\ IsReadyErr(makeReady.polled[k].ret)

\* C22, as stated: every MakeMultiplexer::poll_ready call invokes the
\* poll_ready of both inner make services; it does not return the grpc make
\* service's error before the web make service's check was invoked.
C22_BothMakeAlwaysPolled ==
    makeReady.called => MakePolledSides = Sides

\* C22, amended: every MakeMultiplexer::poll_ready call invokes the grpc
\* make service's poll_ready first, and invokes the web make service's after
\* it exactly when the grpc make service did not report an error; a grpc
\* error is returned without the web make service being polled.
C22_WebMakePolledUnlessGrpcErred ==
    makeReady.called =>
        /\ Len(makeReady.polled) >= 1
        /\ makeReady.polled[1].side = "grpc"
        /\ IF MakeInnerErred("grpc")
           THEN Len(makeReady.polled) = 1 /\ IsReadyErr(makeReady.ret)
           ELSE /\ Len(makeReady.polled) = 2
                /\ makeReady.polled[2].side = "web"

C22_Witness ==
    /\ makeReady.called
    /\ make.make_grpc.kind = "FailingMakeService"
    /\ make.make_web.kind = "DelayedMakeService"
    /\ MakeInnerErred("grpc")
    /\ "web" \notin MakePolledSides
    /\ IsReadyErr(makeReady.ret)

\* ------------------------------------------------- liveness of readiness
\* Every service that returned Pending in the last Multiplexer::poll_ready
\* has the caller's waker: its thread is still to wake it, or has.
PendingIsRegistered ==
    (lastReady.called /\ lastReady.ret = Pending) =>
        \A side \in Sides :
            InnerReturned(side, Pending) => side \in threads \/ notified

NoInnerError == \A side \in Sides : mux[side].kind # "ErrorService"

ObservedReady == lastReady.called /\ lastReady.ret = Ready(Ok(Unit))

\* C23: with two services that never report an error and are Ready from
\* some instant on, a caller that polls Multiplexer::poll_ready again after
\* every notification eventually gets Ready; and whenever poll_ready returns
\* Pending, every service that returned Pending in that call was given the
\* caller's waker, so the caller is notified.
C23_ReadinessLive ==
    /\ []PendingIsRegistered
    /\ NoInnerError ~> ObservedReady

C23_Witness ==
    /\ mux.grpc.kind = "DelayedService"
    /\ mux.web.kind = "DelayedService"
    /\ mux.grpc.ready_after # mux.web.ready_after
    /\ reported = Sides
    /\ ObservedReady

\* ------------------------------------------- the body as a transparent wrapper
\* What the caller of the EncapsulatedBody is to see for an outcome of the
\* inner body's poll_data: the same outcome, a chunk as Bytes and an error
\* boxed.
SeenForData(inner) ==
    CASE inner = Pending -> Pending
      [] inner = Ready(None) -> Ready(None)
      [] inner.val.val.res = "Ok" ->
            Ready(Some(Ok([repr |-> "Bytes", bytes |-> inner.val.val.val.bytes])))
      [] OTHER -> Ready(Some(Err([boxed |-> inner.val.val.err])))

\* Likewise for an outcome of the inner body's poll_trailers.
SeenForTrailers(inner) ==
    CASE inner = Pending -> Pending
      [] inner.val.res = "Ok" -> inner
      [] OTHER -> Ready(Err([boxed |-> inner.val.err]))

\* The chunks of the inner body not yet taken from it are those the caller
\* has not received: none is held in between, none was skipped.
NothingBuffered ==
    ebody.body.data =
        SubSeq(built.body.data, Len(received) + 1, Len(built.body.data))

\* C24: each poll_data and poll_trailers of an EncapsulatedBody polls the
\* inner body once and returns what that poll returned, in the same call:
\* Pending exactly when the inner body returned Pending, and no chunk taken
\* from the inner body is held back.
C24_BodyIsTransparent ==
    /\ lastBody.op = "poll_data" => lastBody.ret = SeenForData(lastBody.inner)
    /\ lastBody.op = "poll_trailers" => lastBody.ret = SeenForTrailers(lastBody.inner)
    /\ lastBody.op # "none" => (lastBody.ret = Pending <=> lastBody.inner = Pending)
    /\ NothingBuffered

C24_Witness ==
    /\ lastBody.op = "poll_data"
    /\ built.variant = "Grpc"
    /\ Len(built.body.data) = 2
    /\ lastBody.inner = Ready(Some(Ok(built.body.data[1])))
    /\ lastBody.ret = Ready(Some(Ok(received[1])))
    /\ ebody.body.data = Tail(built.body.data)

\* C25: when the inner body fails in poll_data or poll_trailers, after
\* chunks were produced or not, the EncapsulatedBody returns that error,
\* boxed, from the same call; it is not dropped and not turned into the end
\* of the stream, and the chunks produced before it were delivered.
C25_BodyErrorSurfaces ==
    /\ (lastBody.op = "poll_data" /\ lastBody.inner.poll = "Ready"
            /\ lastBody.inner.val.opt = "Some" /\ lastBody.inner.val.val.res = "Err")
          => /\ lastBody.ret = Ready(Some(Err(to_boxed(lastBody.inner.val.val.err))))
             /\ bstate = "failed"
             /\ \A k \in DOMAIN received : received[k].bytes = built.body.data[k].bytes
             /\ Len(received) + Len(ebody.body.data) = Len(built.body.data)
    /\ (lastBody.op = "poll_trailers" /\ IsReadyErr(lastBody.inner))
          => /\ lastBody.ret = Ready(Err(to_boxed(lastBody.inner.val.err)))
             /\ bstate = "failed"

C25_Witness ==
    /\ lastBody.op = "poll_data"
    /\ built.variant = "Web"
    /\ Len(received) = 1
    /\ Len(ebody.body.data) = 1
    /\ bstate = "failed"
    /\ lastBody.ret = Ready(Some(Err(to_boxed([type |-> "WebBodyError", msg |-> "body failed"]))))

\* ------------------------------------------------- no retry, no fallback
\* The inner calls made for the i-th Multiplexer::call, on either side.
InnerCallsFor(i) ==
    {c \in [side : Sides, n : 1..MaxCalls] :
        c.n \in DOMAIN mux[c.side].calls /\ mux[c.side].calls[c.n].call = i}

C27_RoutingStateless ==
    [][Len(reqs') = Len(reqs) + 1 =>
        LET i == Len(reqs')
            req == reqs'[i]
            side == VariantSide(RoutedVariant(req))
        IN  /\ futures'[i].variant = RoutedVariant(req)
            /\ DOMAIN mux' = DOMAIN mux
            /\ mux'[side] =
                  [mux[side] EXCEPT !.calls = Append(@, [call |-> i, req |-> req])]
            /\ mux'[Other(side)] = mux[Other(side)]
            /\ UNCHANGED <<now, threads, notified, lastReady, reported>>]_vars

C27_Witness ==
    /\ lastReady.called
    /\ lastReady.ret = Pending
    /\ Len(reqs) = 2
    /\ GrpcPrefixed(reqs[1])
    /\ ~GrpcPrefixed(reqs[2])
    /\ futures[1].variant = "Grpc"
    /\ futures[2].variant = "Web"
    /\ Len(mux.web.calls) = 1

\* ------------------------------------------------- the request, forwarded
\* C28: the request the selected service receives is the request the
\* Multiplexer was called with: the same method, URI, headers (the
\* Content-Type that was read among them) and body.
C28_RequestUnchanged ==
    \A i \in DOMAIN reqs :
        /\ InnerCallsFor(i) # {}
        /\ \A c \in InnerCallsFor(i) :
              LET got == mux[c.side].calls[c.n].req
              IN  /\ got.method = reqs[i].method
                  /\ got.uri = reqs[i].uri
                  /\ got.headers = reqs[i].headers
                  /\ got.body = reqs[i].body

C28_Witness ==
    \E i \in DOMAIN reqs :
        /\ reqs[i] = Request("POST", "/svc/Say", <<Header("content-type", GrpcProto)>>, "frame")
        /\ \E n \in DOMAIN mux.grpc.calls :
              /\ mux.grpc.calls[n].call = i
              /\ mux.grpc.calls[n].req.headers = <<Header("content-type", GrpcProto)>>
              /\ mux.grpc.calls[n].req.body = "frame"

\* C29: of a request with several Content-Type values the first alone
\* decides: the request goes to the grpc service when the first value starts
\* with application/grpc, whatever the later ones are, and to the web
\* service when it does not, even if a later one does.
C29_FirstValueDecides ==
    \A i \in DOMAIN reqs :
        Cardinality(ContentTypeValues(reqs[i])) >= 2 =>
            IF GrpcPrefixed(reqs[i])
            THEN ReceivedBy("grpc", i) /\ ~InvokedFor("web", i)
            ELSE ReceivedBy("web", i) /\ ~InvokedFor("grpc", i)

C29_Witness ==
    \E i, j \in DOMAIN reqs :
        /\ reqs[i].headers = <<Header("content-type", APPLICATION_GRPC),
                               Header("content-type", TextHtml)>>
        /\ reqs[j].headers = <<Header("content-type", TextHtml),
                               Header("content-type", APPLICATION_GRPC)>>
        /\ ReceivedBy("grpc", i)
        /\ ReceivedBy("web", j)

\* ------------------------------------------------ both make services called
\* C30: MakeMultiplexer::call calls each inner make service once, in that
\* call, the grpc one first with a clone of the target and the web one with
\* the target itself, so both receive equal targets; both inner make futures
\* are in the joined future, and each poll of it polls every one of them
\* that has not completed.
C30_BothMakeCalledOnce ==
    IF makeFuture = None
    THEN /\ makeLog.calls = <<>>
         /\ \A side \in Sides : MakeOf(make, side).targets = <<>>
    ELSE /\ \E target \in Targets :
              /\ makeLog.calls = <<[side |-> "grpc", target |-> target],
                                   [side |-> "web", target |-> target]>>
              /\ \A side \in Sides : MakeOf(make, side).targets = <<target>>
         /\ makeLog.polled = None =>
              \A side \in Sides : makeFuture.val.inner[side].state = "Future"
         /\ makeLog.polled # None =>
              \A side \in Sides : Unsettled(side) => side \in makeLog.polled.val

C30_Witness ==
    /\ makeFuture # None
    /\ makeLog.calls = <<[side |-> "grpc", target |-> [addr |-> "peer"]],
                         [side |-> "web", target |-> [addr |-> "peer"]]>>
    /\ make.make_grpc.targets = <<[addr |-> "peer"]>>
    /\ make.make_web.targets = <<[addr |-> "peer"]>>
    /\ makeLog.polled = Some(Sides)
    /\ Unsettled("grpc")
    /\ Unsettled("web")

\* ------------------------------------------------------ calls in flight
\* The inner future the i-th Multiplexer::call created, and whose response
\* carries the inner body of the i-th response: the side's n-th.
OwnInner(i) == CHOOSE c \in InnerCallsFor(i) : TRUE

\* A step that polls or drops the i-th future or the body of its response.
Touches(i) ==
    futures'[i] # futures[i] \/ respBodies'[i] # respBodies[i]

\* Such a step changes no other future, no other body and no inner future
\* but the i-th call's own, and polls none but it.
OnlyItsOwn(i) ==
    /\ \A j \in DOMAIN futures \ {i} :
          futures'[j] = futures[j] /\ respBodies'[j] = respBodies[j]
    /\ \A side \in Sides :
          \A n \in DOMAIN inners[side] :
              inners'[side][n] # inners[side][n] => [side |-> side, n |-> n] = OwnInner(i)
    /\ \A p \in polls' \ polls :
          p = [fut |-> i, side |-> OwnInner(i).side, n |-> OwnInner(i).n]
    /\ mux' = mux

\* Every future not complete can be polled, and complete, now, and every
\* body held can be polled now, whatever the state of the others.
CanProceed ==
    \A i \in DOMAIN futures :
        /\ futures[i].out = Pending =>
              ENABLED (PollFuture(i) /\ futures'[i].out # Pending)
        /\ respBodies[i].opt = "Some" => ENABLED PollResponseData(i, "progress")

\* C31: with several futures and bodies of one Multiplexer in flight, on
\* one service or on both, a poll of one polls only its own inner future or
\* inner body and changes nothing of the others, and each can be polled to
\* completion at any time, in any order with the others.
C31_InFlightIndependent ==
    /\ []CanProceed
    /\ [][\A i \in DOMAIN futures : Touches(i) => OnlyItsOwn(i)]_vars

C31_Witness ==
    /\ Len(futures) = 2
    /\ futures[1].variant = "Grpc"
    /\ futures[2].variant = "Grpc"
    /\ futures[1].out = Pending
    /\ [fut |-> 1, side |-> "grpc", n |-> 1] \in polls
    /\ IsReadyOk(futures[2].out)
    /\ respBodies[2].opt = "Some"
    /\ respBodies[2].val.body.data = <<>>
    /\ inners.grpc[1] = Pending

\* The inner resources of the futures and bodies that were dropped.
OwedReleases ==
    {[what |-> "future", side |-> OwnInner(i).side, n |-> OwnInner(i).n] :
        i \in {j \in DOMAIN futures : futures[j].out = Dropped}}
    \cup
    {[what |-> "body", side |-> OwnInner(i).side, n |-> OwnInner(i).n] :
        i \in {j \in DOMAIN futures : respBodies[j] = Dropped}}

\* C32: an EncapsulatedFuture dropped before it completed, or an
\* EncapsulatedBody dropped drained or not, has released the one inner
\* future or inner body it owned, which is not polled again; nothing else is
\* released, of its own service or of the other.
C32_DropReleasesItsOwn ==
    /\ released = OwedReleases
    /\ \A i \in DOMAIN futures :
          /\ futures[i].out = Dropped => ~ENABLED PollFuture(i)
          /\ respBodies[i] = Dropped =>
                \A step \in BodySteps : ~ENABLED PollResponseData(i, step)

C32_Witness ==
    /\ Len(futures) = 2
    /\ futures[1].variant = "Grpc"
    /\ futures[1].out = Dropped
    /\ [fut |-> 1, side |-> "grpc", n |-> 1] \in polls
    /\ futures[2].variant = "Web"
    /\ respBodies[2] = Dropped
    /\ released = {[what |-> "future", side |-> "grpc", n |-> 1],
                    [what |-> "body", side |-> "web", n |-> 1]}
====
